---- MODULE Spec2Model ----
(***************************************************************************)
(* MagneticSim: the time-series steppers of 2d_sim.py, 2d_sim_gemini.py    *)
(* and simulator_.py, the Lenz indicator logic, and the coil geometry of   *)
(* simulator.py / simulator_.py.                                           *)
(*                                                                         *)
(* Numbers.  The programs compute in binary floating point.  The model     *)
(* computes with exact rationals: a rational is a sign and two natural     *)
(* numbers, and a natural number is a little-endian sequence of base-10^4  *)
(* limbs, because products such as (r^3 + 1e-9) * (r'^3 + 1e-9) do not fit *)
(* the model checker's machine integers.  Positions that the code steps by *)
(* a constant are kept as integer multiples of that step.                  *)
(***************************************************************************)
EXTENDS Integers, Sequences, FiniteSets

(***************************************************************************)
(* Natural numbers of any size.                                            *)
(***************************************************************************)
Base == 100 * 100

RECURSIVE BigOf(_)
BigOf(k) == IF k = 0 THEN <<>> ELSE <<k % Base>> \o BigOf(k \div Base)

RECURSIVE BStrip(_)
BStrip(a) ==
    IF a = <<>> THEN <<>>
    ELSE IF a[Len(a)] = 0 THEN BStrip(SubSeq(a, 1, Len(a) - 1))
    ELSE a

BHead(a) == IF a = <<>> THEN 0 ELSE Head(a)
BTail(a) == IF a = <<>> THEN <<>> ELSE Tail(a)

RECURSIVE BAddC(_, _, _)
BAddC(a, b, c) ==
    IF a = <<>> /\ b = <<>> THEN BigOf(c)
    ELSE LET x == BHead(a) + BHead(b) + c
         IN  <<x % Base>> \o BAddC(BTail(a), BTail(b), x \div Base)

BAdd(a, b) == BStrip(BAddC(a, b, 0))

\* a - b for a >= b, limb by limb with borrow c
RECURSIVE BSubC(_, _, _)
BSubC(a, b, c) ==
    IF a = <<>> THEN <<>>
    ELSE LET x == BHead(a) - BHead(b) - c
         IN  IF x < 0 THEN <<x + Base>> \o BSubC(BTail(a), BTail(b), 1)
             ELSE <<x>> \o BSubC(BTail(a), BTail(b), 0)

BSub(a, b) == BStrip(BSubC(a, b, 0))

RECURSIVE BMulSmall(_, _, _)
BMulSmall(a, k, c) ==
    IF a = <<>> THEN BigOf(c)
    ELSE LET x == Head(a) * k + c
         IN  <<x % Base>> \o BMulSmall(Tail(a), k, x \div Base)

RECURSIVE BMulR(_, _)
BMulR(a, b) ==
    IF a = <<>> THEN <<>>
    ELSE BAddC(BMulSmall(b, Head(a), 0), <<0>> \o BMulR(Tail(a), b), 0)

BMul(a, b) == BStrip(BMulR(a, b))

\* -1, 0, 1 as a < b, a = b, a > b (canonical operands)
RECURSIVE BCmpFrom(_, _, _)
BCmpFrom(a, b, i) ==
    IF i = 0 THEN 0
    ELSE IF a[i] < b[i] THEN -1
    ELSE IF a[i] > b[i] THEN 1
    ELSE BCmpFrom(a, b, i - 1)

BCmp(a, b) ==
    IF Len(a) < Len(b) THEN -1
    ELSE IF Len(a) > Len(b) THEN 1
    ELSE BCmpFrom(a, b, Len(a))

\* a \div k for 0 < k < Base, from the most significant limb i down, with the
\* remainder c carried
RECURSIVE BDivSmallFrom(_, _, _, _)
BDivSmallFrom(a, k, i, c) ==
    IF i = 0 THEN <<>>
    ELSE LET x == c * Base + a[i]
         IN  BDivSmallFrom(a, k, i - 1, x % k) \o <<x \div k>>

BDivSmall(a, k) == BStrip(BDivSmallFrom(a, k, Len(a), 0))

\* n / d with the common factors 10^4, 2 and 5 cancelled (n, d > 0): the
\* decimal constants of the programs put powers of ten in every denominator
RECURSIVE BReduce(_, _)
BReduce(n, d) ==
    IF Head(n) = 0 /\ Head(d) = 0 THEN BReduce(Tail(n), Tail(d))
    ELSE IF Head(n) % 2 = 0 /\ Head(d) % 2 = 0
        THEN BReduce(BDivSmall(n, 2), BDivSmall(d, 2))
    ELSE IF Head(n) % 5 = 0 /\ Head(d) % 5 = 0
        THEN BReduce(BDivSmall(n, 5), BDivSmall(d, 5))
    ELSE <<n, d>>

(***************************************************************************)
(* Exact rationals s * n / d: s in {-1, 0, 1}, n and d naturals, d > 0,    *)
(* s = 0 exactly when n = 0.  Fractions are reduced by 2 and 5 only: RatEq *)
(* and RatLt compare values, = compares representations.                   *)
(***************************************************************************)
RatMk(s, n, d) ==
    IF n = <<>> \/ s = 0 THEN [s |-> 0, n |-> <<>>, d |-> <<1>>]
    ELSE LET r == BReduce(n, d)
         IN  [s |-> s, n |-> r[1], d |-> r[2]]

IntSign(k) == IF k > 0 THEN 1 ELSE IF k < 0 THEN -1 ELSE 0
IntAbs(k) == IF k < 0 THEN -k ELSE k

\* the rational p / q of two machine integers, q > 0
Rat(p, q) == RatMk(IntSign(p), BigOf(IntAbs(p)), BigOf(q))

RatZero == Rat(0, 1)

RatSign(a) == a.s

RatNeg(a) == RatMk(-a.s, a.n, a.d)

RatAbs(a) == RatMk(a.s * a.s, a.n, a.d)

RatAdd(a, b) ==
    LET x == BMul(a.n, b.d)
        y == BMul(b.n, a.d)
        d == BMul(a.d, b.d)
    IN  IF a.s = 0 THEN b
        ELSE IF b.s = 0 THEN a
        ELSE IF a.s = b.s THEN RatMk(a.s, BAdd(x, y), d)
        ELSE IF BCmp(x, y) >= 0 THEN RatMk(a.s, BSub(x, y), d)
        ELSE RatMk(b.s, BSub(y, x), d)

RatSub(a, b) == RatAdd(a, RatNeg(b))

RatMul(a, b) == RatMk(a.s * b.s, BMul(a.n, b.n), BMul(a.d, b.d))

\* a / b for b # 0
RatDiv(a, b) == RatMk(a.s * b.s, BMul(a.n, b.d), BMul(a.d, b.n))

RatEq(a, b) == RatSign(RatSub(a, b)) = 0

RatLt(a, b) == RatSign(RatSub(a, b)) < 0

RatGt(a, b) == RatLt(b, a)

(***************************************************************************)
(* State.                                                                  *)
(***************************************************************************)
VARIABLES
    program,            \* the script that was started
    \* the animation driver (matplotlib FuncAnimation): what it calls next
    pc,                 \* "init": init_func is due; "step": func(frame) is due
    frame,              \* the frame index handed to the next step
    runs,               \* passes over the frame sequence completed so far
    \* 2d_sim_gemini.py
    magnet_x,           \* in tenths (magnet_speed = 0.1 = one tenth)
    magnet_patch,       \* x of the drawn magnet rectangle's left edge, tenths
    flux_history, emf_history, current_history, time_steps,
    current_arrow,      \* [alpha, dy]
    induced_B_arrow_in, induced_B_arrow_out,   \* alpha of each arrow
    induced_B_text,     \* [alpha, text]
    \* 2d_sim.py
    x_vals, flux_vals, emf_vals,
    arrow_dir,          \* np.sign(emf) of the arrow drawn last
    \* simulator_.py
    magnet_current_z,   \* in twentieths (magnet_speed = 0.05 = one twentieth)
    magnet_z_positions, B_magnitude_at_center,
    B_magnet_at_center, \* the field magnetic_field_from_dipole returned last
    \* simulator.py and simulator_.py: the coil built at module level
    dl_x, dl_y, r_primes, dl_vectors,
    \* simulator.py: the sampling lattice and the field on it
    x_dim, y_dim, z_dim,
    B,                  \* the lattice entry computed last: [n, at, value]
    x_index,
    \* simulator_.py: what magnetic_field_from_coil_at_point returned last
    B_total,
    \* the inputs of the specifications that apply one piece of code to
    \* inputs of their choice (SpecLenz, SpecCoil)
    given,
    \* what the last step of 2d_sim_gemini.py did (history of the run for the
    \* properties; the program does not read it)
    last,               \* [n, flux, prev, emf, wrapped], n steps made so far
    sweep               \* <<[x, flux, dflux, emf]>>: the steps of this sweep

driver == <<program, pc, frame, runs>>
gemini == <<magnet_x, magnet_patch, flux_history, emf_history,
            current_history, time_steps, current_arrow, induced_B_arrow_in,
            induced_B_arrow_out, induced_B_text>>
sim2d == <<x_vals, flux_vals, emf_vals, arrow_dir>>
sim3d == <<magnet_current_z, magnet_z_positions, B_magnitude_at_center,
           B_magnet_at_center>>
coil == <<dl_x, dl_y, r_primes, dl_vectors>>
grid == <<x_dim, y_dim, z_dim, B, x_index, B_total>>
observed == <<last, sweep>>
vars == <<driver, gemini, sim2d, sim3d, coil, grid, given, observed>>

\* passes of the animation over its frame sequence that are followed
MaxRuns == 3

(***************************************************************************)
(* The animation driver.  FuncAnimation(fig, func, frames=F, init_func=    *)
(* init) with the default repeat=True calls init, then func(0) ..          *)
(* func(F-1), then init again and the frames again, and so on.             *)
(***************************************************************************)
driver_advance(F) ==
    IF frame + 1 = F
    THEN pc' = "init" /\ frame' = 0 /\ runs' = runs + 1 /\ program' = program
    ELSE pc' = "step" /\ frame' = frame + 1 /\ runs' = runs /\ program' = program

Programs == {"2d_sim", "2d_sim_gemini", "simulator_"}

start_driver == pc = "init" /\ frame = 0 /\ runs = 0

(***************************************************************************)
(* 2d_sim_gemini.py                                                        *)
(***************************************************************************)
coil_x == 0
coil_center_x == Rat(coil_x, 1)
coil_width == Rat(15, 10)
coil_height == Rat(15, 10)
num_turns == 10
coil_resistance == Rat(1, 1)
B_field_strength == Rat(1, 1)
\* lengths along x in tenths
magnet_length == 8
initial_magnet_x == -30
magnet_speed == 1
xlim_min == -50
xlim_max == 50
frames_gemini == 200
dt_sim == Rat(1, 1)
\* "if current_strength > 0.01"
current_threshold == Rat(1, 100)

\* a position in tenths as a number
XReal(k) == Rat(k, 10)

\* the field falling with the distance on the right of the coil only
phi_B_one_sided(mx) ==
    LET d == RatSub(XReal(mx), coil_center_x)
        h == RatDiv(coil_width, Rat(2, 1))
        magnetic_field_magnitude ==
            RatDiv(B_field_strength,
                   RatAdd(IF RatSign(d) < 0 THEN RatZero ELSE RatMul(d, d),
                          RatMul(h, h)))
    IN  RatMul(RatMul(RatMul(magnetic_field_magnitude, coil_width), coil_height),
               Rat(num_turns, 1))

\* magnetic_field_magnitude * coil_width * coil_height * num_turns at magnet_x = mx
phi_B(mx) ==
    LET d == RatSub(XReal(mx), coil_center_x)
        h == RatDiv(coil_width, Rat(2, 1))
        magnetic_field_magnitude ==
            RatDiv(B_field_strength, RatAdd(RatMul(d, d), RatMul(h, h)))
    IN  RatMul(RatMul(RatMul(magnetic_field_magnitude, coil_width), coil_height),
               Rat(num_turns, 1))

\* "magnet_x += magnet_speed; if magnet_x > xlim[1] + magnet_length/2: ..."
move_magnet_unbounded(mx) == mx + magnet_speed

move_magnet_to_start(mx) ==
    IF mx + magnet_speed > xlim_max + magnet_length \div 2
    THEN initial_magnet_x
    ELSE mx + magnet_speed

move_magnet(mx) ==
    IF mx + magnet_speed > xlim_max + magnet_length \div 2
    THEN xlim_min - magnet_length \div 2
    ELSE mx + magnet_speed

emf_of_unsigned(history) ==
    IF Len(history) > 1
    THEN RatDiv(RatSub(history[Len(history)], history[Len(history) - 1]), dt_sim)
    ELSE RatZero

\* Faraday: 0 on the first entry of the history, else the negated backward
\* difference of the last two entries over dt_sim
emf_of(history) ==
    IF Len(history) > 1
    THEN LET delta_flux == RatSub(history[Len(history)], history[Len(history) - 1])
         IN  RatDiv(RatNeg(delta_flux), dt_sim)
    ELSE RatZero

\* Ohm
current_of(emf_induced) == RatDiv(emf_induced, coil_resistance)

lenz_indicators_swapped(emf_induced, current_induced, old_dy, old_text) ==
    LET current_strength == RatAbs(current_induced)
    IN  IF RatGt(current_strength, current_threshold) /\ RatSign(emf_induced) # 0
        THEN [arrow |-> 1, text |-> 1,
              b_in |-> IF RatSign(emf_induced) < 0 THEN 1 ELSE 0,
              b_out |-> IF RatSign(emf_induced) < 0 THEN 0 ELSE 1,
              dy |-> RatMul(Rat(1, 10), RatAbs(current_induced)),
              label |-> IF RatSign(emf_induced) < 0
                        THEN "B inducido: ENTRANDO" ELSE "B inducido: SALIENDO"]
        ELSE [arrow |-> 0, b_in |-> 0, b_out |-> 0, text |-> 0,
              dy |-> old_dy, label |-> old_text]

\* The indicator update of animate: the alphas set, the arrow's dy and the
\* label's text (dy and text keep their old value where the code sets none).
lenz_indicators_at_threshold(emf_induced, current_induced, old_dy, old_text) ==
    LET current_strength == RatAbs(current_induced)
    IN  IF ~RatGt(current_threshold, current_strength)
        THEN IF RatSign(emf_induced) < 0
             THEN [arrow |-> 1, b_in |-> 0, b_out |-> 1, text |-> 1,
                   dy |-> RatMul(Rat(-1, 10), Rat(RatSign(current_induced), 1)),
                   label |-> "B inducido: SALIENDO"]
             ELSE IF RatSign(emf_induced) > 0
             THEN [arrow |-> 1, b_in |-> 1, b_out |-> 0, text |-> 1,
                   dy |-> RatMul(Rat(1, 10), Rat(RatSign(current_induced), 1)),
                   label |-> "B inducido: ENTRANDO"]
             ELSE [arrow |-> 0, b_in |-> 0, b_out |-> 0, text |-> 0,
                   dy |-> old_dy, label |-> old_text]
        ELSE [arrow |-> 0, b_in |-> 0, b_out |-> 0, text |-> 0,
              dy |-> old_dy, label |-> old_text]

lenz_indicators_no_exclusion(emf_induced, current_induced, old_dy, old_text) ==
    LET current_strength == RatAbs(current_induced)
    IN  IF RatGt(current_strength, current_threshold)
        THEN IF RatSign(emf_induced) < 0
             THEN [arrow |-> 1, b_in |-> 1, b_out |-> 1, text |-> 1,
                   dy |-> RatMul(Rat(-1, 10), Rat(RatSign(current_induced), 1)),
                   label |-> "B inducido: SALIENDO"]
             ELSE IF RatSign(emf_induced) > 0
             THEN [arrow |-> 1, b_in |-> 1, b_out |-> 1, text |-> 1,
                   dy |-> RatMul(Rat(1, 10), Rat(RatSign(current_induced), 1)),
                   label |-> "B inducido: ENTRANDO"]
             ELSE [arrow |-> 0, b_in |-> 0, b_out |-> 0, text |-> 0,
                   dy |-> old_dy, label |-> old_text]
        ELSE [arrow |-> 0, b_in |-> 0, b_out |-> 0, text |-> 0,
              dy |-> old_dy, label |-> old_text]

lenz_indicators(emf_induced, current_induced, old_dy, old_text) ==
    LET current_strength == RatAbs(current_induced)
    IN  IF RatGt(current_strength, current_threshold)
        THEN IF RatSign(emf_induced) < 0
             THEN [arrow |-> 1, b_in |-> 0, b_out |-> 1, text |-> 1,
                   dy |-> RatMul(Rat(-1, 10), Rat(RatSign(current_induced), 1)),
                   label |-> "B inducido: SALIENDO"]
             ELSE IF RatSign(emf_induced) > 0
             THEN [arrow |-> 1, b_in |-> 1, b_out |-> 0, text |-> 1,
                   dy |-> RatMul(Rat(1, 10), Rat(RatSign(current_induced), 1)),
                   label |-> "B inducido: ENTRANDO"]
             ELSE [arrow |-> 0, b_in |-> 0, b_out |-> 0, text |-> 0,
                   dy |-> old_dy, label |-> old_text]
        ELSE [arrow |-> 0, b_in |-> 0, b_out |-> 0, text |-> 0,
              dy |-> old_dy, label |-> old_text]

\* the module-level state before the driver runs
start_gemini ==
    /\ magnet_x = initial_magnet_x
    /\ magnet_patch = initial_magnet_x - magnet_length \div 2
    /\ flux_history = <<>>
    /\ emf_history = <<>>
    /\ current_history = <<>>
    /\ time_steps = <<>>
    /\ current_arrow = [alpha |-> 0, dy |-> RatZero]
    /\ induced_B_arrow_in = 0
    /\ induced_B_arrow_out = 0
    /\ induced_B_text = [alpha |-> 0, text |-> "B Inducido"]

\* what a step is observed to do: the flux it computed and the flux of the
\* step before it (whatever init did in between), the EMF it recorded, and
\* the same per sweep (a wrap step starts a new sweep)
observe(mx, phi, emf_induced, wrapped) ==
    LET rec == [x |-> mx, flux |-> phi,
                dflux |-> IF last.n = 0 THEN 0
                          ELSE RatSign(RatSub(phi, last.flux)),
                emf |-> RatSign(emf_induced)]
    IN  /\ last' = [n |-> last.n + 1, flux |-> phi,
                    prev |-> IF last.n = 0 THEN phi ELSE last.flux,
                    emf |-> emf_induced, wrapped |-> wrapped]
        /\ sweep' = IF wrapped THEN <<rec>> ELSE Append(sweep, rec)

start_observed ==
    /\ last = [n |-> 0]
    /\ sweep = <<>>

\* init(): the driver calls it before the first frame and before each repeat
init_gemini ==
    /\ program = "2d_sim_gemini"
    /\ pc = "init"
    /\ runs < MaxRuns
    /\ magnet_patch' = initial_magnet_x - magnet_length \div 2
    /\ current_arrow' = [current_arrow EXCEPT !.alpha = 0]
    /\ induced_B_arrow_in' = 0
    /\ induced_B_arrow_out' = 0
    /\ induced_B_text' = [induced_B_text EXCEPT !.alpha = 0]
    /\ flux_history' = <<>>
    /\ emf_history' = <<>>
    /\ current_history' = <<>>
    /\ time_steps' = <<>>
    /\ pc' = "step"
    /\ frame' = 0
    /\ UNCHANGED <<program, runs, magnet_x, observed, sim2d, sim3d, coil, given, grid>>

\* "current_induced = emf_induced / coil_resistance" for a resistance R # 0
ohm(emf_induced, R) == RatDiv(emf_induced, R)

\* animate(frame) of a script whose coil_resistance is R.  Dividing by a
\* coil_resistance of 0.0 raises ZeroDivisionError: the call ends there,
\* after the magnet was moved and the frame and the flux were appended, and
\* no further frame is followed.
animate_with(R) ==
    /\ program = "2d_sim_gemini"
    /\ pc = "step"
    /\ LET mx == move_magnet(magnet_x)
           phi == phi_B(mx)
           flux2 == Append(flux_history, phi)
           emf_induced == emf_of(flux2)
           wrapped == mx # magnet_x + magnet_speed
       IN  /\ magnet_x' = mx
           /\ magnet_patch' = mx - magnet_length \div 2
           /\ time_steps' = Append(time_steps, frame)
           /\ flux_history' = flux2
           /\ IF RatSign(R) = 0
              THEN /\ pc' = "raised"
                   /\ UNCHANGED <<program, frame, runs, current_arrow,
                                  induced_B_arrow_in, induced_B_arrow_out,
                                  induced_B_text, emf_history, current_history,
                                  observed>>
              ELSE LET current_induced == ohm(emf_induced, R)
                       ind == lenz_indicators(emf_induced, current_induced,
                                              current_arrow.dy, induced_B_text.text)
                   IN  /\ current_arrow' = [alpha |-> ind.arrow, dy |-> ind.dy]
                       /\ induced_B_arrow_in' = ind.b_in
                       /\ induced_B_arrow_out' = ind.b_out
                       /\ induced_B_text' = [alpha |-> ind.text, text |-> ind.label]
                       /\ emf_history' = Append(emf_history, emf_induced)
                       /\ current_history' = Append(current_history, current_induced)
                       /\ observe(mx, phi, emf_induced, wrapped)
                       /\ driver_advance(frames_gemini)
    /\ UNCHANGED <<sim2d, sim3d, coil, given, grid>>

\* animate(frame)
animate_gemini == animate_with(coil_resistance)

(***************************************************************************)
(* 2d_sim_gemini.py with a coil_resistance of the specification's choice   *)
(* in place of the 1.0 of line 13.                                         *)
(***************************************************************************)
ResistanceValues == {Rat(-1, 1), Rat(0, 1), Rat(1, 1), Rat(2, 1)}

animate_configured == animate_with(given.coil_resistance)

(***************************************************************************)
(* 2d_sim.py                                                               *)
(***************************************************************************)
\* mu_0 = 4 * pi * 1e-7: mu_0 / pi, the factor left once B_field's 2 * pi
\* has cancelled pi
mu_0_over_pi == Rat(4, 10000000)
N == 1
A == Rat(1, 10000)
v == Rat(1, 50)
m == 1
coil_position == Rat(1, 2)
dt == Rat(1, 20)
x0 == Rat(-1, 2)
\* frames = int(t_max / dt) = int(10 / 0.05)
frames_2d == 200

B_field(x) ==
    LET r == RatSub(coil_position, x)
    IN  RatDiv(RatMul(mu_0_over_pi, Rat(m, 1)),
               RatMul(Rat(2, 1),
                      RatAdd(RatMul(RatMul(r, r), r), Rat(1, 1000000000))))

\* the flux update(frame) computes
flux_at(f) ==
    LET t == RatMul(Rat(f, 1), dt)
        x == RatAdd(x0, RatMul(v, t))
    IN  RatMul(RatMul(Rat(N, 1), A), B_field(x))

emf_2d_no_dt(f, fluxes) ==
    IF f = 0 THEN RatZero
    ELSE RatNeg(RatSub(fluxes[Len(fluxes)], fluxes[Len(fluxes) - 1]))

emf_2d_by_length(f, fluxes) ==
    IF Len(fluxes) < 2 THEN RatZero
    ELSE RatDiv(RatNeg(RatSub(fluxes[Len(fluxes)], fluxes[Len(fluxes) - 1])), dt)

\* "if frame == 0: emf = 0 / else: emf = -(flux_vals[-1] - flux_vals[-2]) / dt"
emf_2d(f, fluxes) ==
    IF f = 0 THEN RatZero
    ELSE RatDiv(RatNeg(RatSub(fluxes[Len(fluxes)], fluxes[Len(fluxes) - 1])), dt)

start_2d ==
    /\ x_vals = <<>>
    /\ flux_vals = <<>>
    /\ emf_vals = <<>>
    /\ arrow_dir = 0

\* init(): empties the three drawn lines, not the lists
init_2d ==
    /\ program = "2d_sim"
    /\ pc = "init"
    /\ runs < MaxRuns
    /\ pc' = "step"
    /\ frame' = 0
    /\ UNCHANGED <<program, runs, sim2d, gemini, sim3d, observed, coil, given, grid>>

\* update(frame)
update ==
    /\ program = "2d_sim"
    /\ pc = "step"
    /\ LET t == RatMul(Rat(frame, 1), dt)
           fluxes == Append(flux_vals, flux_at(frame))
           emf == emf_2d(frame, fluxes)
       IN  /\ x_vals' = Append(x_vals, t)
           /\ flux_vals' = fluxes
           /\ emf_vals' = Append(emf_vals, emf)
           /\ arrow_dir' = RatSign(emf)
    /\ driver_advance(frames_2d)
    /\ UNCHANGED <<gemini, sim3d, observed, coil, given, grid>>

(***************************************************************************)
(* simulator_.py: the magnet sweep                                         *)
(***************************************************************************)
\* positions along z in twentieths
magnet_speed_z == 1
magnet_initial_z == 80
magnet_final_z == -80
\* frames = np.arange(0, (magnet_initial_z - magnet_final_z) / magnet_speed)
frames_sim == 160
\* mu_0 / (4 * pi) with mu_0 = 4 * pi * 1e-7
mu_0_over_4pi == Rat(1, 10000000)
magnet_magnetic_moment == <<Rat(0, 1), Rat(0, 1), Rat(-50, 1)>>
\* coil_center_z = mean(0, 0.1, 0.2); the ring points average to the axis
center_point == <<Rat(0, 1), Rat(0, 1), Rat(1, 10)>>

ZReal(k) == Rat(k, 20)

VecSub(a, b) == [i \in 1..3 |-> RatSub(a[i], b[i])]
VecScale(c, a) == [i \in 1..3 |-> RatMul(c, a[i])]
Dot(a, b) ==
    RatAdd(RatAdd(RatMul(a[1], b[1]), RatMul(a[2], b[2])), RatMul(a[3], b[3]))

\* np.linalg.norm of a vector along the z axis (the magnet moves on the
\* coil's axis, so every vector of the sweep is one)
NormZ(a) == RatAbs(a[3])

\* 0 / 0 in floating point
NaN == [s |-> 0, n |-> <<>>, d |-> <<>>]

\* without "if r_mag == 0": r_vec / r_mag is nan in every component
magnetic_field_from_dipole_unguarded(r_point, r_dipole, m_dipole) ==
    LET r_vec == VecSub(r_point, r_dipole)
        r_mag == NormZ(r_vec)
        r_hat == VecScale(RatDiv(Rat(1, 1), r_mag), r_vec)
        m_dot_r_hat == Dot(m_dipole, r_hat)
        term == VecSub(VecScale(RatMul(Rat(3, 1), m_dot_r_hat), r_hat), m_dipole)
    IN  IF RatSign(r_mag) = 0
        THEN <<NaN, NaN, NaN>>
        ELSE VecScale(RatDiv(mu_0_over_4pi, RatMul(RatMul(r_mag, r_mag), r_mag)),
                      term)

\* without the division by r_mag**3
magnetic_field_from_dipole_no_falloff(r_point, r_dipole, m_dipole) ==
    LET r_vec == VecSub(r_point, r_dipole)
        r_mag == NormZ(r_vec)
        r_hat == VecScale(RatDiv(Rat(1, 1), r_mag), r_vec)
        m_dot_r_hat == Dot(m_dipole, r_hat)
        term == VecSub(VecScale(RatMul(Rat(3, 1), m_dot_r_hat), r_hat), m_dipole)
    IN  IF RatSign(r_mag) = 0
        THEN <<RatZero, RatZero, RatZero>>
        ELSE VecScale(mu_0_over_4pi, term)

magnetic_field_from_dipole(r_point, r_dipole, m_dipole) ==
    LET r_vec == VecSub(r_point, r_dipole)
        r_mag == NormZ(r_vec)
        r_hat == VecScale(RatDiv(Rat(1, 1), r_mag), r_vec)
        m_dot_r_hat == Dot(m_dipole, r_hat)
        term == VecSub(VecScale(RatMul(Rat(3, 1), m_dot_r_hat), r_hat), m_dipole)
    IN  IF RatSign(r_mag) = 0
        THEN <<RatZero, RatZero, RatZero>>
        ELSE VecScale(RatDiv(mu_0_over_4pi, RatMul(RatMul(r_mag, r_mag), r_mag)),
                      term)

move_magnet_z_overshoot(z) ==
    IF z - magnet_speed_z < magnet_final_z
    THEN z - magnet_speed_z + (magnet_initial_z - magnet_final_z)
    ELSE z - magnet_speed_z

\* "magnet_current_z -= magnet_speed; if magnet_current_z < magnet_final_z: ..."
move_magnet_z(z) ==
    IF z - magnet_speed_z < magnet_final_z
    THEN magnet_initial_z
    ELSE z - magnet_speed_z

start_sim ==
    /\ magnet_current_z = magnet_initial_z
    /\ magnet_z_positions = <<>>
    /\ B_magnitude_at_center = <<>>
    /\ B_magnet_at_center = <<RatZero, RatZero, RatZero>>

\* init(): empties the drawn marker, line and texts, not the lists
init_simulator ==
    /\ program = "simulator_"
    /\ pc = "init"
    /\ runs < MaxRuns
    /\ pc' = "step"
    /\ frame' = 0
    /\ UNCHANGED <<program, runs, sim3d, gemini, sim2d, observed, coil, given, grid>>

\* animate(frame)
animate_simulator ==
    /\ program = "simulator_"
    /\ pc = "step"
    /\ LET z == move_magnet_z(magnet_current_z)
           magnet_pos == <<center_point[1], center_point[2], ZReal(z)>>
           B_dipole ==
               magnetic_field_from_dipole(center_point, magnet_pos,
                                          magnet_magnetic_moment)
           B_magnitude_current == NormZ(B_dipole)
       IN  /\ magnet_current_z' = z
           /\ magnet_z_positions' = Append(magnet_z_positions, z)
           /\ B_magnitude_at_center' =
                  Append(B_magnitude_at_center, B_magnitude_current)
           /\ B_magnet_at_center' = B_dipole
    /\ driver_advance(frames_sim)
    /\ UNCHANGED <<gemini, sim2d, observed, coil, given, grid>>

(***************************************************************************)
(* simulator.py and simulator_.py: the coil.  One ring of coils_points     *)
(* points (coil_pos_x, coil_pos_y: coils_radius * cos / sin of thetas),    *)
(* its differentials, and the ring repeated along z.  The coordinates of   *)
(* the ring's points are integers of the specification's choice; offsets   *)
(* along z are in tenths (coils_step = 0.1).                               *)
(***************************************************************************)
coils_step == 1

\* np.diff(a, append=app): the differences of consecutive entries of a
\* followed by app
np_diff_open(a, app) ==
    [i \in 1..Len(a) |-> IF i < Len(a) THEN a[i + 1] - a[i] ELSE 0]

np_diff(a, app) ==
    LET b == Append(a, app)
    IN  [i \in 1..(Len(b) - 1) |-> b[i + 1] - b[i]]

\* np.arange(start, stop, step), step > 0: ceil((stop - start) / step) values
np_arange(start, stop, step) ==
    LET len == IF stop > start THEN (stop - start + step - 1) \div step ELSE 0
    IN  [i \in 1..len |-> start + (i - 1) * step]

\* range(n) as the sequence 0 .. n-1
range(n) == [i \in 1..n |-> i - 1]

\* np.stack([origin_x, origin_y, origin_z], axis=1) with origin_z full of z_pos
ring_origins(xs, ys, z_pos) == [i \in 1..Len(xs) |-> <<xs[i], ys[i], z_pos>>]

\* np.stack([dl_x, dl_y, dl_z], axis=1) with dl_z zeros
ring_dl(dxs, dys) == [i \in 1..Len(dxs) |-> <<dxs[i], dys[i], 0>>]

\* np.concatenate(rows, axis=0)
RECURSIVE np_concatenate(_)
np_concatenate(rows) ==
    IF rows = <<>> THEN <<>> ELSE Head(rows) \o np_concatenate(Tail(rows))

\* the ring offsets of simulator.py:
\*   for z_pos in np.arange(0, coils_number * coils_step + coils_step, coils_step)
z_positions_simulator(coils_number) ==
    np_arange(0, coils_number * coils_step + coils_step, coils_step)

\* the ring offsets of simulator_.py:
\*   for k in range(coils_number): z_pos = k * coils_step
z_positions_simulator_(coils_number) ==
    [i \in 1..coils_number |-> range(coils_number)[i] * coils_step]

start_coil ==
    /\ dl_x = <<>>
    /\ dl_y = <<>>
    /\ r_primes = <<>>
    /\ dl_vectors = <<>>

\* before the lattice is built and any field is evaluated
start_grid ==
    /\ x_dim = <<>>
    /\ y_dim = <<>>
    /\ z_dim = <<>>
    /\ B = [n |-> 0]
    /\ x_index = 0
    /\ B_total = [n |-> 0]

\* the module-level code that builds the coil, for the ring offsets zs
build_coil(zs) ==
    LET dxs == np_diff(given.coil_pos_x, given.coil_pos_x[1])
        dys == np_diff(given.coil_pos_y, given.coil_pos_y[1])
    IN  /\ dl_x' = dxs
        /\ dl_y' = dys
        /\ r_primes' = np_concatenate(
               [k \in 1..Len(zs) |->
                   ring_origins(given.coil_pos_x, given.coil_pos_y, zs[k])])
        /\ dl_vectors' = np_concatenate([k \in 1..Len(zs) |-> ring_dl(dxs, dys)])
        /\ pc' = "built"
        /\ UNCHANGED <<program, frame, runs, gemini, sim2d, sim3d, given, observed, grid>>

build_simulator ==
    /\ program = "simulator"
    /\ pc = "build"
    /\ build_coil(z_positions_simulator(given.coils_number))

build_simulator_ ==
    /\ program = "simulator_"
    /\ pc = "build"
    /\ build_coil(z_positions_simulator_(given.coils_number))

\* the coils followed: up to MaxPoints points a ring, up to MaxCoils rings,
\* x coordinates in -MaxCoord..MaxCoord, y coordinates 0 or 1
MaxPoints == 3
MaxCoils == 3
MaxCoord == 1

InitCoil ==
    /\ program \in {"simulator", "simulator_"}
    /\ pc = "build" /\ frame = 0 /\ runs = 0
    /\ \E P \in 1..MaxPoints :
           given \in [applied : {FALSE},
                      coils_points : {P},
                      coils_number : 1..MaxCoils,
                      coil_pos_x : [1..P -> -MaxCoord..MaxCoord],
                      coil_pos_y : [1..P -> 0..1]]
    /\ start_coil
    /\ start_grid
    /\ start_gemini
    /\ start_2d
    /\ start_sim
    /\ start_observed

NextCoil == build_simulator \/ build_simulator_

SpecCoil == InitCoil /\ [][NextCoil]_vars

(***************************************************************************)
(* magnetic_field_from_dipole (simulator_.py) applied to a field point and *)
(* dipole positions on the coil's axis and to moments of the               *)
(* specification's choice, one position after the other.                   *)
(***************************************************************************)
\* the dipole positions followed: z in twentieths, -MaxZ..MaxZ
MaxZ == 6

\* the z of the field points followed, in twentieths: the coil centre
\* (center_point, z = 0.1), the origin and a point below it
DipolePointZ == {2, 0, -3}

\* the moments followed: magnet_magnetic_moment and the vectors of
\* components -1, 0, 1
Moments ==
    {magnet_magnetic_moment}
        \cup {<<Rat(a, 1), Rat(b, 1), Rat(c, 1)>> : a, b, c \in -1..1}

\* "B_magnet_at_center = magnetic_field_from_dipole(center_point, magnet_pos,
\* magnet_magnetic_moment)" for the field point and moment given and a
\* magnet position of the specification's choice
dipole_step ==
    /\ program = "simulator_"
    /\ pc = "dipole"
    /\ \E z \in -MaxZ..MaxZ :
           LET r_point == <<center_point[1], center_point[2], ZReal(given.zp)>>
               magnet_pos == <<center_point[1], center_point[2], ZReal(z)>>
           IN  /\ B_magnet_at_center' =
                      magnetic_field_from_dipole(r_point, magnet_pos, given.m_dipole)
               /\ given' = [given EXCEPT
                               !.applied = TRUE, !.z = z,
                               !.before = IF given.applied
                                          THEN [set |-> TRUE, z |-> given.z,
                                                B |-> B_magnet_at_center]
                                          ELSE [set |-> FALSE]]
    /\ UNCHANGED <<driver, gemini, sim2d, magnet_current_z, magnet_z_positions,
                   B_magnitude_at_center, coil, grid, observed>>

InitDipole ==
    /\ program = "simulator_"
    /\ pc = "dipole" /\ frame = 0 /\ runs = 0
    /\ given \in [applied : {FALSE}, m_dipole : Moments, zp : DipolePointZ,
                  z : {magnet_initial_z}, before : {[set |-> FALSE]}]
    /\ start_gemini
    /\ start_2d
    /\ start_sim
    /\ start_coil
    /\ start_grid
    /\ start_observed

NextDipole == dipole_step

SpecDipole == InitDipole /\ [][NextDipole]_vars

(***************************************************************************)
(* simulator.py: the sampling lattice and the Biot-Savart field on it;     *)
(* simulator_.py: the Biot-Savart field at one point.  Lengths are in      *)
(* tenths (coils_step = 0.1 is one tenth, space_res = 0.5 is five), so     *)
(* every coordinate of the lattice and of the rings followed is an         *)
(* integer, as are the cross products and the squared distances.           *)
(***************************************************************************)
\* space_res = 0.5
space_res == 5
\* the closed intervals of np.arange(-2, 2 + space_res, space_res), ...
x_range == <<-20, 20>>
y_range == <<-30, 30>>
z_range == <<-40, 40>>
coils_radius == 1

\* np.arange(lo, hi + space_res, space_res) taking the stop value too
lattice_axis_closed(lo_hi) ==
    [i \in 1..((lo_hi[2] + space_res - lo_hi[1]) \div space_res + 1) |->
        lo_hi[1] + (i - 1) * space_res]

\* "np.arange(-2, 2 + space_res, space_res).reshape(-1, 1)"
lattice_axis(lo_hi) == np_arange(lo_hi[1], lo_hi[2] + space_res, space_res)

\* thetas = np.linspace(0, 2 * pi, coils_points, endpoint=False) in quarter
\* turns, for the coils_points that divide a whole turn into quarter turns
thetas(coils_points) == [i \in 1..coils_points |-> ((i - 1) * 4) \div coils_points]
\* np.cos and np.sin of quarter turns
np_cos(q) == <<1, 0, -1, 0>>[(q % 4) + 1]
np_sin(q) == <<0, 1, 0, -1>>[(q % 4) + 1]

\* coil_pos_x = coils_radius * np.cos(thetas), in tenths
ring_pos_x(coils_points) ==
    [i \in 1..coils_points |-> 10 * coils_radius * np_cos(thetas(coils_points)[i])]
ring_pos_y(coils_points) ==
    [i \in 1..coils_points |-> 10 * coils_radius * np_sin(thetas(coils_points)[i])]

\* x_dim, y_dim, z_dim
build_lattice ==
    /\ program = "simulator"
    /\ pc = "built"
    /\ x_dim' = lattice_axis(x_range)
    /\ y_dim' = lattice_axis(y_range)
    /\ z_dim' = lattice_axis(z_range)
    /\ pc' = "lattice"
    /\ UNCHANGED <<program, frame, runs, gemini, sim2d, sim3d, coil, given,
                   observed, B, x_index, B_total>>

(***************************************************************************)
(* The Biot-Savart sum.  |r| is the square root of an integer q, so a      *)
(* contribution km * cross(dl, r) / |r|^3 is kept as its integer numerator *)
(* vector over q^(3/2): [nan, num, den] with den = q.  A field is the sum  *)
(* of such contributions: nan if one of them is, else the numerators added *)
(* per denominator, the denominators whose numerators cancel left out.     *)
(***************************************************************************)
\* km = mu_0 * i / (4 * pi) with i = 300, in units of mu_0 / (4 * pi) = 1e-7
km == 300

VSub(a, b) == <<a[1] - b[1], a[2] - b[2], a[3] - b[3]>>
VAdd(a, b) == <<a[1] + b[1], a[2] + b[2], a[3] + b[3]>>
VZero == <<0, 0, 0>>

\* np.cross(a, b)
np_cross(a, b) ==
    <<a[2] * b[3] - a[3] * b[2], a[3] * b[1] - a[1] * b[3], a[1] * b[2] - a[2] * b[1]>>

\* np.linalg.norm(r, axis=-1), as its square
np_linalg_norm(r) == r[1] * r[1] + r[2] * r[2] + r[3] * r[3]

\* r_norm**3 without the guard against r_norm == 0
r_norm3_unguarded(r_norm) == [inf |-> FALSE, q |-> r_norm]

\* "np.where(r_norm == 0, np.inf, r_norm**3)" for one entry
r_norm3_of(r_norm) ==
    IF r_norm = 0 THEN [inf |-> TRUE, q |-> 0] ELSE [inf |-> FALSE, q |-> r_norm]

\* the float division vec / d: 0 by inf, nan for 0 / 0 (inf for x / 0, which
\* no cross product with r = 0 produces)
np_divide(vec, d) ==
    IF d.inf THEN [nan |-> FALSE, num |-> VZero, den |-> 1]
    ELSE IF d.q = 0 THEN [nan |-> TRUE, num |-> VZero, den |-> 1]
    ELSE [nan |-> FALSE, num |-> vec, den |-> d.q]

\* km * (np.cross(dl, r_vector) / r_norm3[..., np.newaxis]) for one segment
biot_savart_dB(dl, r_vector, k) ==
    LET t == np_divide(np_cross(dl, r_vector), r_norm3_of(np_linalg_norm(r_vector)))
    IN  [t EXCEPT !.num = <<k * t.num[1], k * t.num[2], k * t.num[3]>>]

\* the numerators of the first n terms that are over den, added
RECURSIVE sum_over(_, _, _)
sum_over(terms, den, n) ==
    IF n = 0 THEN VZero
    ELSE IF terms[n].den = den THEN VAdd(sum_over(terms, den, n - 1), terms[n].num)
    ELSE sum_over(terms, den, n - 1)

\* np.sum(dB, axis=0)
np_sum(terms) ==
    IF \E s \in 1..Len(terms) : terms[s].nan THEN [nan |-> TRUE, terms |-> {}]
    ELSE [nan |-> FALSE,
          terms |-> {t \in {<<terms[s].den, sum_over(terms, terms[s].den, Len(terms))>> :
                               s \in 1..Len(terms)} : t[2] # VZero}]

\* simulator_.py: the field at r_point
magnetic_field_from_coil_at_point(r_point, rp, dl, k) ==
    LET r_vector == [s \in 1..Len(rp) |-> VSub(r_point, rp[s])]
        dB_contributions ==
            [s \in 1..Len(rp) |-> biot_savart_dB(dl[s], r_vector[s], k)]
    IN  np_sum(dB_contributions)

\* np.meshgrid(x_dim, y_dim, z_dim, indexing='xy') stacked, at one index
meshgrid_xy(xd, yd, zd, idx) == <<xd[idx[2]], yd[idx[1]], zd[idx[3]]>>

\* np.stack(np.meshgrid(x_dim, y_dim, z_dim, indexing='ij'), axis=-1) at one
\* index: the coordinates of lattice entry idx
meshgrid(xd, yd, zd, idx) == <<xd[idx[1]], yd[idx[2]], zd[idx[3]]>>

\* entry n (from 0) of the lattice in the order of the array
lattice_index(n) ==
    <<n \div (Len(y_dim) * Len(z_dim)) + 1,
      ((n \div Len(z_dim)) % Len(y_dim)) + 1,
      (n % Len(z_dim)) + 1>>

\* simulator.py: B = np.sum(dB, axis=0), one lattice entry after the other
evaluate_entry ==
    /\ program = "simulator"
    /\ pc = "lattice"
    /\ LET idx == lattice_index(B.n)
           r == meshgrid(x_dim, y_dim, z_dim, idx)
           r_vector == [s \in 1..Len(r_primes) |-> VSub(r, r_primes[s])]
           dB == [s \in 1..Len(r_primes) |->
                     biot_savart_dB(dl_vectors[s], r_vector[s], km)]
       IN  /\ B' = [n |-> B.n + 1, at |-> idx, value |-> np_sum(dB)]
           /\ pc' = IF B.n + 1 = Len(x_dim) * Len(y_dim) * Len(z_dim)
                    THEN "field" ELSE "lattice"
    /\ UNCHANGED <<program, frame, runs, gemini, sim2d, sim3d, coil, given,
                   observed, x_dim, y_dim, z_dim, x_index, B_total>>

\* np.argmin(a): the first index of the smallest entry (from 1 here)
np_argmin(a) ==
    CHOOSE i \in 1..Len(a) :
        /\ \A j \in 1..Len(a) : a[i] <= a[j]
        /\ \A j \in 1..(i - 1) : a[j] > a[i]

\* "x_index = np.argmin(x_dim)"
slice_plane ==
    /\ program = "simulator"
    /\ pc = "field"
    /\ x_index' = np_argmin(x_dim)
    /\ pc' = "sliced"
    /\ UNCHANGED <<program, frame, runs, gemini, sim2d, sim3d, coil, given,
                   observed, x_dim, y_dim, z_dim, B, B_total>>

\* the points magnetic_field_from_coil_at_point is applied to
FieldPoints == {-10, 0, 10} \X {-10, 0, 10} \X {0, 1, 5}

\* simulator_.py: "B_coil_at_center = magnetic_field_from_coil_at_point(...)",
\* at a point of the specification's choice
coil_at_point ==
    /\ program = "simulator_"
    /\ pc = "built"
    /\ \E r_point \in FieldPoints :
           B_total' = [n |-> 1, at |-> r_point,
                       value |-> magnetic_field_from_coil_at_point(
                                     r_point, r_primes, dl_vectors, km)]
    /\ UNCHANGED <<driver, gemini, sim2d, sim3d, coil, given, observed,
                   x_dim, y_dim, z_dim, B, x_index>>

\* the coils followed: rings of 1, 2 or 4 points, up to MaxRings rings
MaxRings == 2

InitGrid ==
    /\ program \in {"simulator", "simulator_"}
    /\ pc = "build" /\ frame = 0 /\ runs = 0
    /\ \E P \in {1, 2, 4} :
           given \in [applied : {FALSE},
                      coils_points : {P},
                      coils_number : 1..MaxRings,
                      coil_pos_x : {ring_pos_x(P)},
                      coil_pos_y : {ring_pos_y(P)}]
    /\ start_coil
    /\ start_grid
    /\ start_gemini
    /\ start_2d
    /\ start_sim
    /\ start_observed

NextGrid ==
    \/ build_simulator
    \/ build_simulator_
    \/ build_lattice
    \/ evaluate_entry
    \/ slice_plane
    \/ coil_at_point

SpecGrid == InitGrid /\ [][NextGrid]_vars

(***************************************************************************)
(* The indicator update of animate (2d_sim_gemini.py) applied to EMFs of   *)
(* the specification's choice, one after the other, from the display the   *)
(* module-level code leaves.                                               *)
(***************************************************************************)
\* the EMFs followed: k / 100 for k in -MaxEmf..MaxEmf
MaxEmf == 60

lenz_step ==
    /\ program = "2d_sim_gemini"
    /\ pc = "lenz"
    /\ \E k \in -MaxEmf..MaxEmf :
           LET emf_induced == Rat(k, 100)
               current_induced == current_of(emf_induced)
               ind == lenz_indicators(emf_induced, current_induced,
                                      current_arrow.dy, induced_B_text.text)
           IN  /\ given' = [applied |-> TRUE, emf |-> emf_induced]
               /\ current_arrow' = [alpha |-> ind.arrow, dy |-> ind.dy]
               /\ induced_B_arrow_in' = ind.b_in
               /\ induced_B_arrow_out' = ind.b_out
               /\ induced_B_text' = [alpha |-> ind.text, text |-> ind.label]
    /\ UNCHANGED <<driver, magnet_x, magnet_patch, flux_history, emf_history,
                   current_history, time_steps, sim2d, sim3d, coil, observed, grid>>

InitLenz ==
    /\ program = "2d_sim_gemini"
    /\ pc = "lenz" /\ frame = 0 /\ runs = 0
    /\ given = [applied |-> FALSE]
    /\ start_gemini
    /\ start_2d
    /\ start_sim
    /\ start_coil
    /\ start_grid
    /\ start_observed

NextLenz == lenz_step

SpecLenz == InitLenz /\ [][NextLenz]_vars

(***************************************************************************)
(* 2d_sim_gemini.py started with a coil_resistance of the specification's  *)
(* choice: the module-level code has run, the driver calls init and        *)
(* animate.                                                                *)
(***************************************************************************)
InitConfig ==
    /\ program = "2d_sim_gemini"
    /\ start_driver
    /\ given \in [applied : {FALSE}, coil_resistance : ResistanceValues]
    /\ start_gemini
    /\ start_2d
    /\ start_sim
    /\ start_coil
    /\ start_grid
    /\ start_observed

NextConfig == init_gemini \/ animate_configured

SpecConfig == InitConfig /\ [][NextConfig]_vars

(***************************************************************************)
(* The animated scripts: one of them is started, its module-level code     *)
(* has run, and the driver calls its init and its step function.           *)
(***************************************************************************)
Init ==
    /\ program \in Programs
    /\ start_driver
    /\ start_gemini
    /\ start_2d
    /\ start_sim
    /\ start_coil
    /\ start_grid
    /\ given = [applied |-> FALSE]
    /\ start_observed

Next ==
    \/ init_2d
    \/ update
    \/ init_gemini
    \/ animate_gemini
    \/ init_simulator
    \/ animate_simulator

Spec == Init /\ [][Next]_vars

(***************************************************************************)
(* Properties of the steppers (Spec).                                      *)
(***************************************************************************)
\* steps of the current pass that are done (F: the frames of a pass); with
\* init due after a pass, the pass just ended
steps_done(F) == IF pc = "step" THEN frame ELSE IF runs > 0 THEN F ELSE 0

Final(h) == h[Len(h)]

\* C1: the EMF recorded by the first step of a run (frame 0 of a pass, the
\* first step after init) is exactly 0, in 2d_sim.py and in 2d_sim_gemini.py.
C1_FirstEmfIsZero ==
    /\ (program = "2d_sim" /\ steps_done(frames_2d) = 1)
           => Final(emf_vals) = RatZero
    /\ (program = "2d_sim_gemini" /\ steps_done(frames_gemini) = 1)
           => Final(emf_history) = RatZero

\* the first step of the second pass of 2d_sim.py: 201 fluxes recorded, the
\* last two different, and the EMF recorded is 0
C1_Witness ==
    /\ program = "2d_sim" /\ runs = 1 /\ steps_done(frames_2d) = 1
    /\ Len(flux_vals) = frames_2d + 1
    /\ ~RatEq(Final(flux_vals), flux_vals[Len(flux_vals) - 1])
    /\ RatSign(Final(emf_vals)) = 0

\* C2: the EMF appended by step n >= 1 of a run is -(flux[n] - flux[n-1]) / dt
\* for the last two fluxes recorded: EMF * dt + flux[n] = flux[n-1], with
\* dt = 0.05 in 2d_sim.py and dt_sim = 1 in 2d_sim_gemini.py.
C2_EmfIsBackwardDifference ==
    /\ (program = "2d_sim" /\ steps_done(frames_2d) >= 2)
           => RatEq(RatAdd(RatMul(Final(emf_vals), dt), Final(flux_vals)),
                    flux_vals[Len(flux_vals) - 1])
    /\ (program = "2d_sim_gemini" /\ steps_done(frames_gemini) >= 2)
           => RatEq(RatAdd(RatMul(Final(emf_history), dt_sim), Final(flux_history)),
                    flux_history[Len(flux_history) - 1])

\* a later step of 2d_sim_gemini.py that recorded a positive EMF
C2_Witness ==
    /\ program = "2d_sim_gemini" /\ steps_done(frames_gemini) >= 2
    /\ RatSign(Final(emf_history)) > 0
    /\ RatLt(Final(flux_history), flux_history[Len(flux_history) - 1])

\* C3: after any number of steps of a run, every history of the program has
\* as many entries as the run has made steps.
C3_HistoriesCountRunSteps ==
    /\ program = "2d_sim"
           => /\ Len(x_vals) = steps_done(frames_2d)
              /\ Len(flux_vals) = steps_done(frames_2d)
              /\ Len(emf_vals) = steps_done(frames_2d)
    /\ program = "2d_sim_gemini"
           => /\ Len(time_steps) = steps_done(frames_gemini)
              /\ Len(flux_history) = steps_done(frames_gemini)
              /\ Len(emf_history) = steps_done(frames_gemini)
              /\ Len(current_history) = steps_done(frames_gemini)
    /\ program = "simulator_"
           => /\ Len(magnet_z_positions) = steps_done(frames_sim)
              /\ Len(B_magnitude_at_center) = steps_done(frames_sim)

\* C4: when init has just been called every history of the program is
\* empty, and the first step after it leaves each with one entry.
C4_InitEmptiesHistories ==
    LET fresh == pc = "step" /\ frame = 0
        once == pc = "step" /\ frame = 1
        all == <<x_vals, flux_vals, emf_vals, time_steps, flux_history,
                 emf_history, current_history, magnet_z_positions,
                 B_magnitude_at_center>>
        of == [q \in Programs |->
                 IF q = "2d_sim" THEN 1..3
                 ELSE IF q = "2d_sim_gemini" THEN 4..7 ELSE 8..9]
    IN  \A i \in of[program] :
            /\ fresh => Len(all[i]) = 0
            /\ once => Len(all[i]) = 1

\* C5: a step of simulator_.py that would take the magnet below
\* magnet_final_z leaves it at magnet_initial_z exactly; any other step
\* leaves it one magnet_speed lower.
C5_WrapIsExact ==
    [][(program = "simulator_" /\ pc = "step")
          => IF magnet_current_z - magnet_speed_z < magnet_final_z
             THEN magnet_current_z' = magnet_initial_z
             ELSE magnet_current_z' = magnet_current_z - magnet_speed_z]_vars

\* the step after the magnet reached magnet_final_z put it at magnet_initial_z
C5_Witness ==
    /\ program = "simulator_"
    /\ Len(magnet_z_positions) >= 2
    /\ magnet_z_positions[Len(magnet_z_positions) - 1] = magnet_final_z
    /\ Final(magnet_z_positions) = magnet_initial_z
    /\ magnet_current_z = magnet_initial_z

\* C7: at a step that finds the flux larger than the step before did, the
\* inward induced-field arrow is hidden; at a step that finds it smaller, the
\* outward one is hidden (wrap steps and steps after init included).
C7_IndicatorOpposesFluxChange ==
    (program = "2d_sim_gemini" /\ last.n > 1)
        => /\ RatGt(last.flux, last.prev) => induced_B_arrow_in = 0
           /\ RatLt(last.flux, last.prev) => induced_B_arrow_out = 0

\* in a repeated pass, a step found the flux smaller and shows the inward arrow
C7_Witness ==
    /\ program = "2d_sim_gemini" /\ last.n > 1 /\ runs >= 1 /\ pc = "step"
    /\ RatLt(last.flux, last.prev)
    /\ induced_B_arrow_in = 1 /\ induced_B_arrow_out = 0

\* C8: within a sweep of 2d_sim_gemini.py (the steps from the start, or from
\* a wrap step, up to the next wrap) the flux rises and then falls, and the
\* EMFs recorded go from negative to positive once, not before the step of
\* the largest flux.  An EMF of 0 (the first step after init) has no sign;
\* the first step of a sweep compares with the flux of the sweep before.
Negative == {i \in 2..Len(sweep) : sweep[i].emf < 0}
Positive == {i \in 2..Len(sweep) : sweep[i].emf > 0}
\* step k of the sweep found the largest flux of the sweep
IsPeak(k) == \A j \in 1..Len(sweep) : ~RatLt(sweep[k].flux, sweep[j].flux)
\* the next step wraps
SweepEnds == magnet_x + magnet_speed > xlim_max + magnet_length \div 2

Shown(emf) == RatGt(RatAbs(emf), RatMul(current_threshold, coil_resistance))

RECURSIVE Sum(_)
Sum(a) == IF a = <<>> THEN 0 ELSE Head(a) + Sum(Tail(a))

\* C9: the coil built has coils_number rings, ring k (from 0) at offset
\* k * coils_step, so r_primes and dl_vectors have coils_points * coils_number
\* rows; in simulator.py and in simulator_.py.
C9_RingsAreCoilsNumber ==
    pc = "built"
        => /\ Len(r_primes) = given.coils_points * given.coils_number
           /\ Len(dl_vectors) = given.coils_points * given.coils_number
           /\ \A k \in 0..(given.coils_number - 1) :
                  \A j \in 1..given.coils_points :
                      r_primes[k * given.coils_points + j][3] = k * coils_step

\* C10: in every ring built, the displacement of point k is the position of
\* point (k mod P) + 1 minus the position of point k, and the displacements
\* of the ring add up to the zero vector.
C10_RingIsClosed ==
    pc = "built"
        => LET P == given.coils_points
               rings == Len(dl_vectors) \div P
               ring(r) == SubSeq(dl_vectors, (r - 1) * P + 1, r * P)
           IN  /\ rings >= 1
               /\ Len(dl_vectors) = rings * P
               /\ \A r \in 1..rings :
                      /\ \A k \in 1..P :
                             ring(r)[k] =
                                 <<given.coil_pos_x[(k % P) + 1] - given.coil_pos_x[k],
                                   given.coil_pos_y[(k % P) + 1] - given.coil_pos_y[k],
                                   0>>
                      /\ Sum([k \in 1..P |-> ring(r)[k][1]]) = 0
                      /\ Sum([k \in 1..P |-> ring(r)[k][2]]) = 0
                      /\ Sum([k \in 1..P |-> ring(r)[k][3]]) = 0

\* a coil of simulator_.py with rings of three different points was built
C10_Witness ==
    /\ pc = "built" /\ program = "simulator_"
    /\ given.coils_points = 3 /\ given.coils_number >= 2
    /\ given.coil_pos_x[1] < given.coil_pos_x[2]
    /\ given.coil_pos_x[2] < given.coil_pos_x[3]
    /\ dl_x[3] < 0
    /\ Len(dl_vectors) = 3 * given.coils_number
(***************************************************************************)
(* Properties of the lattice and of the Biot-Savart field (SpecGrid).      *)
(***************************************************************************)
AxisIsClosedRange(dim, lo_hi) ==
    /\ Len(dim) >= 1
    /\ dim[1] = lo_hi[1]
    /\ dim[Len(dim)] = lo_hi[2]
    /\ \A i \in 1..Len(dim) : dim[i] <= lo_hi[2]
    /\ \A i \in 1..(Len(dim) - 1) : dim[i + 1] - dim[i] = space_res

\* C11: each axis of the lattice of simulator.py starts at its lower bound,
\* ends exactly at its upper bound, has no point beyond it, and has
\* consecutive points exactly space_res apart.
C11_LatticeAxesAreClosedRanges ==
    pc \in {"lattice", "field", "sliced"}
        => /\ AxisIsClosedRange(x_dim, x_range)
           /\ AxisIsClosedRange(y_dim, y_range)
           /\ AxisIsClosedRange(z_dim, z_range)

\* the lattice was built: three axes of several points each
C11_Witness ==
    /\ pc = "lattice" /\ program = "simulator"
    /\ Len(x_dim) > 2 /\ Len(y_dim) > Len(x_dim) /\ Len(z_dim) > Len(y_dim)
    /\ x_dim[Len(x_dim)] = x_range[2]

\* the coordinates of the lattice entry computed last
EntryPoint == <<x_dim[B.at[1]], y_dim[B.at[2]], z_dim[B.at[3]]>>

\* the contributions of all segments but s to the field at point
Others(point, s) ==
    [t \in 1..(Len(r_primes) - 1) |->
        LET u == IF t < s THEN t ELSE t + 1
        IN  biot_savart_dB(dl_vectors[u], VSub(point, r_primes[u]), km)]

\* a field evaluated at point, where a segment starts, is a number, that
\* segment's contribution is the zero vector and the field is the sum of
\* the other contributions
SingularSegmentIsZero(point, value) ==
    \A s \in 1..Len(r_primes) :
        r_primes[s] = point
            => /\ ~value.nan
               /\ LET own == biot_savart_dB(dl_vectors[s],
                                            VSub(point, r_primes[s]), km)
                  IN  ~own.nan /\ own.num = VZero
               /\ value = np_sum(Others(point, s))

\* C12: in both Biot-Savart evaluators a segment whose origin is the field
\* point contributes the zero vector, no error is raised, and the field
\* there is the sum of the contributions of the other segments.
C12_SingularSegmentContributesZero ==
    /\ B.n >= 1 => SingularSegmentIsZero(EntryPoint, B.value)
    /\ B_total.n >= 1 => SingularSegmentIsZero(B_total.at, B_total.value)

\* a lattice entry at the origin of a segment of a coil of several
\* segments, with a field that is not zero
C12_Witness ==
    /\ B.n >= 1
    /\ \E s \in 1..Len(r_primes) : r_primes[s] = EntryPoint
    /\ Len(r_primes) > 2
    /\ ~B.value.nan /\ B.value.terms # {}

\* C15: the field stored at a lattice entry by simulator.py is the field
\* magnetic_field_from_coil_at_point returns for the coordinates of that
\* entry (same coil, same km), and entry n of the array is the entry of
\* its own index.
C15_GridEntryIsPointField ==
    B.n >= 1
        => /\ B.at = lattice_index(B.n - 1)
           /\ B.value = magnetic_field_from_coil_at_point(
                            EntryPoint, r_primes, dl_vectors, km)

\* an entry off the diagonal of the lattice with a field that is not zero
C15_Witness ==
    /\ B.n >= 1
    /\ B.at[1] # B.at[2] /\ x_dim[B.at[1]] # y_dim[B.at[1]]
    /\ ~B.value.nan /\ B.value.terms # {}

\* C17: the cross-section of the magnitude map is the lattice plane x = 0:
\* x_index selects the entry of x_dim that is 0.
C17_SliceIsPlaneXZero ==
    pc = "sliced" => x_dim[x_index] = 0

Distance(z) == IntAbs(given.zp - z)
\* the moment lies along the axis that field point and dipole are on
MomentOnAxis ==
    /\ RatSign(given.m_dipole[1]) = 0
    /\ RatSign(given.m_dipole[2]) = 0
    /\ RatSign(given.m_dipole[3]) # 0

\* C14 as claimed: on the dipole's axis, of two distances r1 < r2 the
\* magnitude of the field at r1 is greater than at r2.
C14_MagnitudeDecreasesFromZero ==
    (given.applied /\ given.before.set /\ MomentOnAxis)
        => /\ Distance(given.before.z) < Distance(given.z)
                  => RatGt(NormZ(given.before.B), NormZ(B_magnet_at_center))
           /\ Distance(given.z) < Distance(given.before.z)
                  => RatGt(NormZ(B_magnet_at_center), NormZ(given.before.B))

\* C14: on the dipole's axis, of two distances 0 < r1 < r2 the magnitude of
\* the field at r1 is greater than at r2 (at distance 0 the field returned
\* is the zero vector).
C14_MagnitudeDecreasesWithDistance ==
    (given.applied /\ given.before.set /\ MomentOnAxis)
        => /\ 0 < Distance(given.before.z) /\ Distance(given.before.z) < Distance(given.z)
                  => RatGt(NormZ(given.before.B), NormZ(B_magnet_at_center))
           /\ 0 < Distance(given.z) /\ Distance(given.z) < Distance(given.before.z)
                  => RatGt(NormZ(B_magnet_at_center), NormZ(given.before.B))

\* the function was applied at one distance and then, on the other side of
\* the dipole, at a larger one, with the moment of the magnet
C14_Witness ==
    /\ given.applied /\ given.before.set
    /\ given.m_dipole = magnet_magnetic_moment
    /\ given.before.z < given.zp /\ given.zp < given.z
    /\ 0 < Distance(given.before.z) /\ Distance(given.before.z) < Distance(given.z)
    /\ RatGt(NormZ(given.before.B), NormZ(B_magnet_at_center))

(***************************************************************************)
(* Properties of the configured run (SpecConfig).                          *)
(***************************************************************************)
\* C16: with a coil_resistance that is zero or negative the run is rejected
\* at setup: no call of animate is made, so nothing is appended to the
\* histories and no current is computed.
C16_NonPositiveResistanceIsRejected ==
    ~RatGt(given.coil_resistance, RatZero)
        => /\ pc # "raised"
           /\ time_steps = <<>>
           /\ flux_history = <<>>
           /\ emf_history = <<>>
           /\ current_history = <<>>

(***************************************************************************)
(* The wrap of 2d_sim_gemini.py (Spec).                                    *)
(***************************************************************************)
\* C18 as stated: after a step that moved the magnet past the right travel
\* boundary the magnet is at the position the run started from,
\* initial_magnet_x.
C18_WrapReturnsToStart ==
    (program = "2d_sim_gemini" /\ last.n > 0 /\ last.wrapped)
        => magnet_x = initial_magnet_x

\* C18, amended: after a step that moved the magnet past the right travel
\* boundary the magnet is exactly at the left boundary, the lower x limit
\* minus half the magnet length, and a sweep that began with a wrap visits
\* that position and then one magnet_speed more at every step, the same
\* positions in every such sweep.
C18_WrapReturnsToLeftEdge ==
    program = "2d_sim_gemini" =>
        /\ (last.n > 0 /\ last.wrapped)
               => magnet_x = xlim_min - magnet_length \div 2
        /\ last.n > Len(sweep)
               => \A k \in 1..Len(sweep) :
                      sweep[k].x = (xlim_min - magnet_length \div 2)
                                       + (k - 1) * magnet_speed

\* The second wrap of a run has happened: a whole sweep from the left boundary
\* to the right one lies behind it.
C18_Witness ==
    /\ program = "2d_sim_gemini"
    /\ last.n > 2 * Len(sweep)
    /\ Len(sweep) > 100
    /\ magnet_x > initial_magnet_x

(***************************************************************************)
(* The direction of the current arrow (SpecLenz).                          *)
(***************************************************************************)
\* C19: when the current is above the display threshold the current arrow
\* points downward (dy < 0) for a negative EMF and upward (dy > 0) for a
\* positive EMF.
C19_ArrowDirectionFollowsEmfSign ==
    (given.applied /\ Shown(given.emf))
        => /\ RatSign(given.emf) < 0 => RatSign(current_arrow.dy) < 0
           /\ RatSign(given.emf) > 0 => RatSign(current_arrow.dy) > 0

(***************************************************************************)
(* The display threshold (SpecLenz).                                       *)
(***************************************************************************)
\* C20: after a step whose induced current has a magnitude of at most 0.01
\* the current arrow, both induced-field arrows and the induced-field label
\* are hidden, whatever the step before had left visible.
C20_SmallCurrentHidesAll ==
    (given.applied /\ ~RatGt(RatAbs(current_of(given.emf)), current_threshold))
        => /\ current_arrow.alpha = 0
           /\ induced_B_arrow_in = 0
           /\ induced_B_arrow_out = 0
           /\ induced_B_text.alpha = 0

\* a step with a current of exactly 0.01 in magnitude hid the indicators that
\* an earlier step had shown: the label still carries that step's text
C20_Witness ==
    /\ given.applied
    /\ RatAbs(current_of(given.emf)) = current_threshold
    /\ induced_B_text.text \in {"B inducido: SALIENDO", "B inducido: ENTRANDO"}
    /\ RatSign(current_arrow.dy) # 0
    /\ current_arrow.alpha = 0
    /\ induced_B_text.alpha = 0

(***************************************************************************)
(* The indicators of 2d_sim_gemini.py taken together (Spec).               *)
(***************************************************************************)
\* C21: after init and after every step of 2d_sim_gemini.py the inward and
\* the outward induced-field arrow are never both visible, and the current
\* arrow is visible exactly when one of the two induced-field arrows is, and
\* exactly when the induced-field label is.
C21_IndicatorsAreConsistent ==
    program = "2d_sim_gemini" =>
        /\ ~(induced_B_arrow_in = 1 /\ induced_B_arrow_out = 1)
        /\ current_arrow.alpha = 1
               <=> (induced_B_arrow_in = 1 \/ induced_B_arrow_out = 1)
        /\ current_arrow.alpha = 1 <=> induced_B_text.alpha = 1
        /\ current_arrow.alpha \in {0, 1}
        /\ induced_B_text.alpha \in {0, 1}

\* a step of a repeated pass shows the current arrow, the label and the
\* outward arrow alone, after earlier steps had shown the inward one
C21_Witness ==
    /\ program = "2d_sim_gemini" /\ runs >= 1 /\ last.n > 1
    /\ current_arrow.alpha = 1
    /\ induced_B_text = [alpha |-> 1, text |-> "B inducido: SALIENDO"]
    /\ induced_B_arrow_out = 1 /\ induced_B_arrow_in = 0

(***************************************************************************)
(* The travel interval of the magnet (Spec).                               *)
(***************************************************************************)
\* C22: before and after every step the magnet is inside its closed travel
\* interval, magnet_final_z..magnet_initial_z in simulator_.py and the x
\* limits widened by half the magnet length in 2d_sim_gemini.py, and a step
\* that does not wrap moves it by exactly one magnet_speed, downward in
\* simulator_.py and to the right in 2d_sim_gemini.py.
C22_MagnetStaysInTravelInterval ==
    [][/\ program = "simulator_" =>
              /\ magnet_final_z <= magnet_current_z
              /\ magnet_current_z <= magnet_initial_z
              /\ magnet_final_z <= magnet_current_z'
              /\ magnet_current_z' <= magnet_initial_z
              /\ (pc = "step" /\ magnet_current_z - magnet_speed_z >= magnet_final_z)
                     => magnet_current_z' = magnet_current_z - magnet_speed_z
       /\ program = "2d_sim_gemini" =>
              /\ xlim_min - magnet_length \div 2 <= magnet_x
              /\ magnet_x <= xlim_max + magnet_length \div 2
              /\ xlim_min - magnet_length \div 2 <= magnet_x'
              /\ magnet_x' <= xlim_max + magnet_length \div 2
              /\ (pc = "step" /\ magnet_x + magnet_speed <= xlim_max + magnet_length \div 2)
                     => magnet_x' = magnet_x + magnet_speed]_vars

\* after a wrap the magnet of 2d_sim_gemini.py crossed the whole interval and
\* stands on its right end, the last position before the next wrap
C22_Witness ==
    /\ program = "2d_sim_gemini"
    /\ last.n > Len(sweep)
    /\ Len(sweep) > 1
    /\ sweep[1].x = xlim_min - magnet_length \div 2
    /\ magnet_x = xlim_max + magnet_length \div 2

====
